---- MODULE Spec2Model ----
(***************************************************************************)
(* Sidecar process lifecycle of frontend-next/src-tauri/src/lib.rs:        *)
(* the setup closure (resolve, spawn, start the relay task, manage the     *)
(* SidecarChild state), the relay task that forwards the sidecar's         *)
(* CommandEvents to the log, and the on_window_event handler that takes    *)
(* the child out of the Mutex<Option<CommandChild>> and kills it.          *)
(*                                                                         *)
(* Three specifications share the actions:                                 *)
(*   Spec       the event loop's scheduling: the setup closure and the     *)
(*              window-event handler both run on the main thread, each to  *)
(*              completion, so a handler starts only after setup returned  *)
(*              and while no other handler is running;                     *)
(*   SpecRace   the handler may be entered from any thread at any time,    *)
(*              also while setup has not yet reached app.manage (the race  *)
(*              section 5 of the specification asks the design to          *)
(*              tolerate);                                                 *)
(*   SpecRelay  the relay loop alone, started on every bounded event       *)
(*              stream already queued in the channel.                      *)
(* LiveSpec and LiveSpecRace add weak fairness on the handler's steps,      *)
(* LiveRelaySpec adds weak fairness on the relay task's steps to Spec.     *)
(***************************************************************************)
EXTENDS Integers, Sequences, FiniteSets, TLC

\* ---------------------------------------------------------------- bounds
NumWindows == 2
MaxEvents == 1
MaxLineLen == 1
MaxStreamLen == 2

Windows == 1..NumWindows

\* ---------------------------------------------------------------- data
\* The one CommandChild returned by sidecar.spawn() (lib.rs:24).
Child == "child"
\* Mutex owner when nobody holds the lock.
NoHolder == 0

\* Bytes of an output line: a letter, a blank, and a byte that is not UTF-8.
BadByte == "0xFF"
Replacement == "U+FFFD"
Alphabet == {"a", " ", BadByte}
Whitespace == {" ", "\t", "\r", "\n"}

RECURSIVE SeqsUpTo(_, _)
SeqsUpTo(S, n) ==
  IF n = 0 THEN {<<>>}
  ELSE LET shorter == SeqsUpTo(S, n - 1)
       IN  shorter \cup {Append(s, x) : s \in shorter, x \in S}

Ready == <<"r", "e", "a", "d", "y">>
WarnLowMemory ==
  <<"w", "a", "r", "n", ":", " ", "l", "o", "w", " ", "m", "e", "m", "o", "r", "y">>
PaddedLine == <<"\t", "a", " ", "a", "\r", "\n">>
SampleLines == {Ready, WarnLowMemory, PaddedLine}
Lines == SeqsUpTo(Alphabet, MaxLineLen) \cup SampleLines

\* tauri_plugin_shell::process::CommandEvent; Other stands for any variant the
\* catch-all arm receives.
Ev(k, d) == [kind |-> k, data |-> d]
ExitCodes == {"0", "1"}
ErrorMessages == {"permission denied"}
LineEvents == {Ev(k, l) : k \in {"Stdout", "Stderr"}, l \in Lines}
TerminalEvents ==
  {Ev("Terminated", c) : c \in ExitCodes} \cup {Ev("Error", m) : m \in ErrorMessages}
Events == LineEvents \cup TerminalEvents \cup {Ev("Other", "")}

\* What the sidecar emits in the full lifecycle specifications.
EmittedEvents ==
  {Ev("Stdout", <<" ", "a">>), Ev("Stderr", <<"a", " ">>),
   Ev("Error", "permission denied"), Ev("Other", "")}

\* ---------------------------------------------------------------- relay: pure parts
\* String::from_utf8_lossy (lib.rs:32, 36): invalid bytes become U+FFFD.
Lossy(bytes) ==
  [i \in 1..Len(bytes) |-> IF bytes[i] = BadByte THEN Replacement ELSE bytes[i]]

RECURSIVE TrimStart(_)
TrimStart(s) ==
  IF s = <<>> THEN <<>>
  ELSE IF Head(s) \in Whitespace THEN TrimStart(Tail(s)) ELSE s

RECURSIVE TrimEnd(_)
TrimEnd(s) ==
  IF s = <<>> THEN <<>>
  ELSE IF s[Len(s)] \in Whitespace THEN TrimEnd(SubSeq(s, 1, Len(s) - 1)) ELSE s

\* Mutant of Trim: only the end is trimmed.
Trim_EndOnly(s) == TrimEnd(s)
\* str::trim (lib.rs:33, 37): leading and trailing whitespace removed.
Trim(s) == TrimEnd(TrimStart(s))

SidecarPrefix == "[sidecar] "
Entry(lvl, m) == [level |-> lvl, msg |-> m]

\* log::warn! (lib.rs:37)
StderrLevel == "warn"
\* log::info! (lib.rs:33)
StdoutLevel == "info"

\* Mutant of TerminatedLog: the Terminated arm only breaks.
TerminatedLog_Silent(status) == <<>>
\* lib.rs:40
TerminatedLog(status) ==
  <<Entry("info", <<"[sidecar] terminated with ", status>>)>>

\* Mutant of ErrorLog: the Error arm only breaks.
ErrorLog_Silent(err) == <<>>
\* lib.rs:44
ErrorLog(err) == <<Entry("error", <<"[sidecar] error: ", err>>)>>

\* Mutant of RelayLog: a line that is blank after trimming is not logged.
RelayLog_SkipBlank(e) ==
  CASE e.kind \in {"Stdout", "Stderr"} /\ Trim(Lossy(e.data)) = <<>> -> <<>>
    [] e.kind = "Stdout" ->
         <<Entry(StdoutLevel, <<SidecarPrefix>> \o Trim(Lossy(e.data)))>>
    [] e.kind = "Stderr" ->
         <<Entry(StderrLevel, <<SidecarPrefix>> \o Trim(Lossy(e.data)))>>
    [] e.kind = "Terminated" -> TerminatedLog(e.data)
    [] e.kind = "Error" -> ErrorLog(e.data)
    [] OTHER -> <<>>
\* The entries one consumed event adds to the log (the match of lib.rs:30-48).
RelayLog(e) ==
  CASE e.kind = "Stdout" ->
         <<Entry(StdoutLevel, <<SidecarPrefix>> \o Trim(Lossy(e.data)))>>
    [] e.kind = "Stderr" ->
         <<Entry(StderrLevel, <<SidecarPrefix>> \o Trim(Lossy(e.data)))>>
    [] e.kind = "Terminated" -> TerminatedLog(e.data)
    [] e.kind = "Error" -> ErrorLog(e.data)
    [] OTHER -> <<>>

\* Mutant of BreaksLoop: every event that is not a line ends the loop.
BreaksLoop_OnUnknown(e) == e.kind \notin {"Stdout", "Stderr"}

\* Mutant of BreaksLoop: the Error arm does not break.
BreaksLoop_TerminatedOnly(e) == e.kind = "Terminated"
\* The arms that end in `break` (lib.rs:41, 45).
BreaksLoop(e) == e.kind \in {"Terminated", "Error"}

\* ---------------------------------------------------------------- handler: pure parts
\* Mutant of SlotAfterTake: the handle is read but left in the slot.
SlotAfterTake_Keep(s) == s
\* Option::take (lib.rs:60) leaves None behind.
SlotAfterTake(s) == {}

\* Mutant of AfterKill: the result of kill() is unwrapped.
AfterKill_Unwrap(res) == IF res = "err" THEN "panicked" ELSE "log"
\* `let _ = child.kill();` (lib.rs:61): the result is discarded.
AfterKill(res) == "log"

\* Mutant of ProcAfterKill: kill() turns any process into a killed one.
ProcAfterKill_Always(p) == "killed"
\* child.kill() (lib.rs:61) ends a running process; one that already exited
\* stays as it is.
ProcAfterKill(p) == IF p = "running" THEN "killed" ELSE p

\* Mutant of ProcAfterRelay: the Error arm kills the sidecar.
ProcAfterRelay_KillOnError(p, e) ==
  IF e.kind = "Error" /\ p = "running" THEN "killed" ELSE p
\* The relay task owns rx only (lib.rs:27-50): no arm touches the child.
ProcAfterRelay(p, e) == p

\* log::info!("[sidecar] killed on window destroy") (lib.rs:62)
KilledEntry == Entry("info", <<"[sidecar] killed on window destroy">>)

\* Mutant of AfterSetupFailure: a failed step is skipped and setup goes on.
AfterSetupFailure_Continue(next) == next
\* .expect(..) (lib.rs:22, 24) panics: the application aborts during setup.
AfterSetupFailure(next) == "aborted"

\* Mutant of AfterUnlock: the guard is leaked, the mutex stays locked.
AfterUnlock_Leak(holder) == holder
\* The MutexGuard temporary is dropped at the end of the if-let (lib.rs:63).
AfterUnlock(holder) == NoHolder

\* ---------------------------------------------------------------- state
VARIABLES
  setupPc,     \* position of the setup closure (lib.rs:14-56)
  setupError,  \* the step of setup that failed: "none", "resolve", "spawn"
  spawns,      \* number of sidecar.spawn() calls made
  proc,        \* the OS process: "none", "running", "exited", "killed"
  emitted,     \* events the process has produced so far
  rx,          \* the channel of CommandEvents not yet received
  rxClosed,    \* the sending side of rx has been dropped
  relayPc,     \* the relay task: "none", "recv", "exited"
  consumed,    \* events the relay has received, in order
  log,         \* the log sink
  managed,     \* app.manage(SidecarChild(..)) has run
  slot,        \* Option<CommandChild> inside the Mutex, as a set
  lockHolder,  \* the window whose handler holds the Mutex, or NoHolder
  poisoned,    \* a holder of the Mutex panicked
  win,         \* per window: position of its Destroyed handler
  outcome,     \* per window: what its handler found
  held,        \* per window: the child its handler took
  killRes,     \* per window: the result of its child.kill()
  killCalls    \* number of child.kill() calls made

vars ==
  <<setupPc, setupError, spawns, proc, emitted, rx, rxClosed, relayPc, consumed, log, managed,
    slot, lockHolder, poisoned, win, outcome, held, killRes, killCalls>>

setupVars == <<setupPc, setupError, spawns, managed>>
procVars == <<proc, emitted, rx, rxClosed>>
relayVars == <<relayPc, consumed>>
handlerVars == <<lockHolder, poisoned, win, outcome, held, killRes, killCalls>>

Alive == setupPc # "aborted"

\* Mutant of AfterTake: the child is killed only when no window is left open.
AfterTake_LastWindowOnly(taken) ==
  IF taken = {} \/ (\E v \in Windows : win[v] = "open") THEN "unlock" ELSE "kill"
\* Mutant of AfterTake: the body of the if-let is never entered.
AfterTake_Skip(taken) == "unlock"
\* `if let Some(child) = ...take()` (lib.rs:60): the body runs on Some only.
AfterTake(taken) == IF taken = {} THEN "unlock" ELSE "kill"

Init ==
  /\ setupPc = "resolve"
  /\ setupError = "none"
  /\ spawns = 0
  /\ proc = "none"
  /\ emitted = 0
  /\ rx = <<>>
  /\ rxClosed = FALSE
  /\ relayPc = "none"
  /\ consumed = <<>>
  /\ log = <<>>
  /\ managed = FALSE
  /\ slot = {}
  /\ lockHolder = NoHolder
  /\ poisoned = FALSE
  /\ win = [w \in Windows |-> "open"]
  /\ outcome = [w \in Windows |-> "none"]
  /\ held = [w \in Windows |-> {}]
  /\ killRes = [w \in Windows |-> "none"]
  /\ killCalls = 0

\* ---------------------------------------------------------------- setup closure
\* app.shell().sidecar("transcribealpha-server").expect(..) (lib.rs:19-22)
ResolveSidecar ==
  /\ setupPc = "resolve"
  /\ \E ok \in BOOLEAN :
       /\ setupPc' = IF ok THEN "spawn" ELSE AfterSetupFailure("spawn")
       /\ setupError' = IF ok THEN setupError ELSE "resolve"
  /\ UNCHANGED <<spawns, managed, procVars, relayVars, log, slot, handlerVars>>

\* sidecar.spawn().expect(..) (lib.rs:24)
SpawnSidecar ==
  /\ setupPc = "spawn"
  /\ spawns' = spawns + 1
  /\ \E ok \in BOOLEAN :
       /\ setupPc' = IF ok THEN "start_relay" ELSE AfterSetupFailure("start_relay")
       /\ setupError' = IF ok THEN setupError ELSE "spawn"
       /\ proc' = IF ok THEN "running" ELSE proc
  /\ UNCHANGED <<managed, emitted, rx, rxClosed, relayVars, log, slot, handlerVars>>

\* tauri::async_runtime::spawn(async move { .. }) (lib.rs:27)
StartRelay ==
  /\ setupPc = "start_relay"
  /\ setupPc' = "manage"
  /\ relayPc' = "recv"
  /\ UNCHANGED <<setupError, spawns, managed, procVars, consumed, log, slot, handlerVars>>

\* app.manage(SidecarChild(Mutex::new(Some(child)))); Ok(()) (lib.rs:53-55)
ManageChild ==
  /\ setupPc = "manage"
  /\ setupPc' = "done"
  /\ managed' = TRUE
  /\ slot' = {Child}
  /\ UNCHANGED <<setupError, spawns, procVars, relayVars, log, handlerVars>>

\* ---------------------------------------------------------------- sidecar process
\* tx.send(e): dropped when the receiver is gone or the channel is closed.
Send(e) == IF relayPc = "exited" \/ rxClosed THEN rx ELSE Append(rx, e)

\* The process writes a line, or the reader reports an I/O error or another event.
ProcEmit(e) ==
  /\ Alive
  /\ proc = "running"
  /\ emitted < MaxEvents
  /\ emitted' = emitted + 1
  /\ rx' = Send(e)
  /\ UNCHANGED <<proc, rxClosed, setupVars, relayVars, log, slot, handlerVars>>

\* The process exits by itself: Terminated is sent and the channel closes.
ProcExit(code) ==
  /\ Alive
  /\ proc = "running"
  /\ proc' = "exited"
  /\ rx' = Send(Ev("Terminated", code))
  /\ rxClosed' = TRUE
  /\ UNCHANGED <<emitted, setupVars, relayVars, log, slot, handlerVars>>

\* The killed process is reaped: Terminated is sent and the channel closes.
ProcReap ==
  /\ Alive
  /\ proc = "killed"
  /\ ~rxClosed
  /\ rx' = Send(Ev("Terminated", "1"))
  /\ rxClosed' = TRUE
  /\ UNCHANGED <<proc, emitted, setupVars, relayVars, log, slot, handlerVars>>

\* The stream itself breaks: the channel closes with no terminal event.
StreamBreaks ==
  /\ Alive
  /\ proc # "none"
  /\ ~rxClosed
  /\ rxClosed' = TRUE
  /\ UNCHANGED <<proc, emitted, rx, setupVars, relayVars, log, slot, handlerVars>>

\* ---------------------------------------------------------------- relay task
\* One iteration of `while let Some(event) = rx.recv().await` (lib.rs:29-48).
RelayRecv ==
  /\ Alive
  /\ relayPc = "recv"
  /\ rx # <<>>
  /\ LET e == Head(rx)
     IN  /\ rx' = Tail(rx)
         /\ consumed' = Append(consumed, e)
         /\ log' = log \o RelayLog(e)
         /\ relayPc' = IF BreaksLoop(e) THEN "exited" ELSE "recv"
         /\ proc' = ProcAfterRelay(proc, e)
  /\ UNCHANGED <<emitted, rxClosed, setupVars, slot, handlerVars>>

\* rx.recv() returns None: the loop ends (lib.rs:29, 49).
RelayStreamEnd ==
  /\ Alive
  /\ relayPc = "recv"
  /\ rx = <<>>
  /\ rxClosed
  /\ relayPc' = "exited"
  /\ UNCHANGED <<consumed, procVars, setupVars, log, slot, handlerVars>>

\* ---------------------------------------------------------------- window-event handler
MainThreadIdle == \A w \in Windows : win[w] \in {"open", "destroyed"}

\* `if let tauri::WindowEvent::Destroyed = event` (lib.rs:57-58)
EnterHandler(w) ==
  /\ Alive
  /\ win[w] = "open"
  /\ win' = [win EXCEPT ![w] = "try_state"]
  /\ UNCHANGED <<setupVars, procVars, relayVars, log, slot, lockHolder, poisoned,
                 outcome, held, killRes, killCalls>>

\* The event loop delivers Destroyed after setup returned, one handler at a time.
WindowDestroyed(w) ==
  /\ setupPc = "done"
  /\ MainThreadIdle
  /\ EnterHandler(w)

\* Destroyed delivered with no ordering against setup or other handlers.
WindowDestroyedRacing(w) == EnterHandler(w)

\* window.try_state::<SidecarChild>() (lib.rs:59)
TryState(w) ==
  /\ Alive
  /\ win[w] = "try_state"
  /\ IF managed
       THEN /\ win' = [win EXCEPT ![w] = "lock"]
            /\ UNCHANGED outcome
       ELSE /\ win' = [win EXCEPT ![w] = "destroyed"]
            /\ outcome' = [outcome EXCEPT ![w] = "unmanaged"]
  /\ UNCHANGED <<setupVars, procVars, relayVars, log, slot, lockHolder, poisoned,
                 held, killRes, killCalls>>

\* state.0.lock().unwrap().take() (lib.rs:60)
LockTake(w) ==
  /\ Alive
  /\ win[w] = "lock"
  /\ lockHolder = NoHolder
  /\ IF poisoned
       THEN /\ win' = [win EXCEPT ![w] = "panicked"]
            /\ UNCHANGED <<lockHolder, slot, held, outcome>>
       ELSE /\ lockHolder' = w
            /\ held' = [held EXCEPT ![w] = slot]
            /\ slot' = SlotAfterTake(slot)
            /\ outcome' = [outcome EXCEPT ![w] = IF slot = {} THEN "empty" ELSE "took"]
            /\ win' = [win EXCEPT ![w] = AfterTake(slot)]
  /\ UNCHANGED <<setupVars, procVars, relayVars, log, poisoned, killRes, killCalls>>

\* child.kill() (lib.rs:61): succeeds on a running process; on a process that
\* already exited the library may report success or an error.
KillChild(w) ==
  /\ Alive
  /\ win[w] = "kill"
  /\ killCalls' = killCalls + 1
  /\ \E res \in {"ok", "err"} :
       /\ proc = "running" => res = "ok"
       /\ killRes' = [killRes EXCEPT ![w] = res]
       /\ win' = [win EXCEPT ![w] = AfterKill(res)]
       /\ poisoned' = (poisoned \/ AfterKill(res) = "panicked")
  /\ proc' = ProcAfterKill(proc)
  /\ UNCHANGED <<emitted, rx, rxClosed, setupVars, relayVars, log, slot, lockHolder,
                 outcome, held>>

\* log::info!("[sidecar] killed on window destroy") (lib.rs:62)
LogKilled(w) ==
  /\ Alive
  /\ win[w] = "log"
  /\ log' = Append(log, KilledEntry)
  /\ win' = [win EXCEPT ![w] = "unlock"]
  /\ UNCHANGED <<setupVars, procVars, relayVars, slot, lockHolder, poisoned,
                 outcome, held, killRes, killCalls>>

\* End of the if-let: the guard is dropped, the handler returns (lib.rs:63-65).
Unlock(w) ==
  /\ Alive
  /\ win[w] = "unlock"
  /\ lockHolder' = AfterUnlock(lockHolder)
  /\ win' = [win EXCEPT ![w] = "destroyed"]
  /\ UNCHANGED <<setupVars, procVars, relayVars, log, slot, poisoned,
                 outcome, held, killRes, killCalls>>

HandlerStep(w) ==
  TryState(w) \/ LockTake(w) \/ KillChild(w) \/ LogKilled(w) \/ Unlock(w)

\* ---------------------------------------------------------------- specifications
Common ==
  \/ ResolveSidecar
  \/ SpawnSidecar
  \/ StartRelay
  \/ ManageChild
  \/ \E e \in EmittedEvents : ProcEmit(e)
  \/ \E c \in ExitCodes : ProcExit(c)
  \/ ProcReap
  \/ StreamBreaks
  \/ RelayRecv
  \/ RelayStreamEnd
  \/ \E w \in Windows : TryState(w)
  \/ \E w \in Windows : LockTake(w)
  \/ \E w \in Windows : KillChild(w)
  \/ \E w \in Windows : LogKilled(w)
  \/ \E w \in Windows : Unlock(w)

Next == Common \/ \E w \in Windows : WindowDestroyed(w)

Spec == Init /\ [][Next]_vars

\* The handler is synchronous code: once entered it runs to its end.
HandlerFairness == \A w \in Windows : WF_vars(HandlerStep(w))

LiveSpec == Spec /\ HandlerFairness

NextRace == Common \/ \E w \in Windows : WindowDestroyedRacing(w)

SpecRace == Init /\ [][NextRace]_vars

LiveSpecRace == SpecRace /\ HandlerFairness

\* The async runtime polls the relay task whenever rx holds an event or is closed.
RelayFairness == WF_vars(RelayRecv \/ RelayStreamEnd)

LiveRelaySpec == Spec /\ RelayFairness

\* The relay loop alone, on every stream queued in the channel after setup.
ReadyWarnTerminated ==
  <<Ev("Stdout", Ready), Ev("Stderr", WarnLowMemory), Ev("Terminated", "0")>>
Streams == SeqsUpTo(Events, MaxStreamLen) \cup {ReadyWarnTerminated}

InitRelay ==
  /\ setupPc = "done"
  /\ setupError = "none"
  /\ spawns = 1
  /\ proc = "running"
  /\ emitted = 0
  /\ rx \in Streams
  /\ rxClosed \in BOOLEAN
  /\ relayPc = "recv"
  /\ consumed = <<>>
  /\ log = <<>>
  /\ managed = TRUE
  /\ slot = {Child}
  /\ lockHolder = NoHolder
  /\ poisoned = FALSE
  /\ win = [w \in Windows |-> "open"]
  /\ outcome = [w \in Windows |-> "none"]
  /\ held = [w \in Windows |-> {}]
  /\ killRes = [w \in Windows |-> "none"]
  /\ killCalls = 0

NextRelay == RelayRecv \/ RelayStreamEnd

SpecRelay == InitRelay /\ [][NextRelay]_vars

\* ---------------------------------------------------------------- properties
InHandler(w) == win[w] \in {"try_state", "lock", "kill", "log", "unlock"}
HandlersDone == {w \in Windows : win[w] = "destroyed"}
Takers == {w \in Windows : outcome[w] = "took"}
KilledEntries == {i \in DOMAIN log : log[i] = KilledEntry}

\* C1: however many Destroyed handlers have run to completion (one or more),
\* exactly one child.kill() has been made; every later handler finds the slot
\* empty, kills nothing, writes no log entry, does not panic and never finds
\* the Mutex held.
C1_ExactlyOneKill ==
  /\ killCalls <= 1
  /\ HandlersDone # {} => killCalls = 1
  /\ Cardinality(Takers) <= 1
  /\ Cardinality(KilledEntries) <= 1
  /\ \A w \in Windows :
       /\ win[w] # "panicked"
       /\ win[w] = "lock" => lockHolder = NoHolder
       /\ (w \in HandlersDone /\ outcome[w] # "took") =>
            /\ outcome[w] = "empty"
            /\ killRes[w] = "none"
            /\ held[w] = {}
            /\ Takers # {}

C1_Witness ==
  /\ HandlersDone = Windows
  /\ killCalls = 1
  /\ \E w \in Windows : outcome[w] = "empty"

\* C2: once a Destroyed handler has returned because the state was not yet
\* managed, the slot never holds a handle that nobody killed.
C2_NoResurrection ==
  (\E w \in Windows : outcome[w] = "unmanaged") => slot = {}

\* C3: every Destroyed notification is followed by a state in which the slot is
\* empty, child.kill() has been called and the worker process no longer runs.
C3_DestroyLeadsToKill ==
  \A w \in Windows :
    (win[w] = "try_state") ~> (slot = {} /\ killCalls >= 1 /\ proc # "running")

C3_Witness ==
  \E w \in Windows :
    /\ win[w] = "destroyed"
    /\ outcome[w] = "took"
    /\ proc = "killed"
    /\ slot = {}

\* C4: a handle is in the slot only while no handler has taken one (at most one
\* live handle exists), and once a handler has taken it the slot stays empty.
C4_SlotAtMostOneThenEmpty ==
  /\ [](/\ Cardinality(slot) <= 1
        /\ slot # {} => \A w \in Windows : held[w] = {})
  /\ [][(Takers # {} /\ slot = {}) => slot' = {}]_vars

C4_Witness ==
  /\ Takers # {}
  /\ slot = {}
  /\ \E w \in Windows : outcome[w] = "empty" /\ win[w] = "destroyed"

\* C5: the handler never panics, the Mutex is never poisoned, the Mutex is held
\* only by a handler between its take and the end of its if-let, and every
\* handler that was entered returns (unless setup aborts the application),
\* whatever the interleaving with setup, the relay and other handlers.
C5_TerminateNeverPanicsNorBlocks ==
  /\ [](/\ ~poisoned
        /\ \A w \in Windows : win[w] # "panicked"
        /\ lockHolder # NoHolder => win[lockHolder] \in {"kill", "log", "unlock"})
  /\ \A w \in Windows : InHandler(w) ~> (win[w] = "destroyed" \/ ~Alive)

C5_Witness ==
  \E w, v \in Windows :
    /\ win[w] = "lock"
    /\ lockHolder = v
    /\ win[v] = "kill"
    /\ setupPc = "done"
    /\ relayPc = "recv"

IsTrimOf(t, s) ==
  \E i, j \in 0..Len(s) :
    /\ i + j <= Len(s)
    /\ t = SubSeq(s, i + 1, Len(s) - j)
    /\ \A k \in 1..i : s[k] \in Whitespace
    /\ \A k \in (Len(s) - j + 1)..Len(s) : s[k] \in Whitespace
    /\ t # <<>> => (t[1] \notin Whitespace /\ t[Len(t)] \notin Whitespace)

LineEntryAdded(lvl, bytes) ==
  /\ Len(log') = Len(log) + 1
  /\ SubSeq(log', 1, Len(log)) = log
  /\ LET entry == log'[Len(log')]
     IN  /\ entry.level = lvl
         /\ Len(entry.msg) >= 1
         /\ entry.msg[1] = SidecarPrefix
         /\ IsTrimOf(Tail(entry.msg), Lossy(bytes))

\* C7: each Stdout event the relay receives adds exactly one log entry, at info
\* level, holding the decoded line without its leading and trailing whitespace;
\* each Stderr event adds exactly one such entry at warning level.
C7_LineSeverityAndTrim ==
  [][(relayPc = "recv" /\ consumed' # consumed) =>
       /\ Head(rx).kind = "Stdout" => LineEntryAdded("info", Head(rx).data)
       /\ Head(rx).kind = "Stderr" => LineEntryAdded("warn", Head(rx).data)]_vars

C7_Witness ==
  \E i, j \in DOMAIN consumed :
    /\ consumed[i] = Ev("Stdout", PaddedLine)
    /\ consumed[j].kind = "Stderr"
    /\ consumed[j].data # <<>>
    /\ consumed[j].data[1] \in Whitespace
    /\ Len(log) = 2

OnReadyWarnTerminated ==
  /\ consumed \o rx = ReadyWarnTerminated
  /\ relayPc = "exited"

\* C8 (original): on [Stdout "ready", Stderr "warn: low memory", Terminated 0]
\* the relay logs exactly two entries, info "ready" and warning
\* "warn: low memory", and stops.
C8_ExactlyTwoLines ==
  OnReadyWarnTerminated =>
    /\ Len(log) = 2
    /\ log[1] = Entry("info", <<SidecarPrefix>> \o Ready)
    /\ log[2] = Entry("warn", <<SidecarPrefix>> \o WarnLowMemory)

\* C8 (amended): on that stream the relay logs exactly three entries, info
\* "ready", warning "warn: low memory" and info "terminated with" the exit
\* status, and stops having received all three events.
C8_TwoLinesThenTerminated ==
  OnReadyWarnTerminated =>
    /\ log = <<Entry("info", <<SidecarPrefix>> \o Ready),
               Entry("warn", <<SidecarPrefix>> \o WarnLowMemory),
               Entry("info", <<"[sidecar] terminated with ", "0">>)>>
    /\ consumed = ReadyWarnTerminated
    /\ rx = <<>>

C8_Witness ==
  /\ consumed = ReadyWarnTerminated
  /\ relayPc = "exited"
  /\ Len(log) = 3

\* C9: when the first event received is Error("permission denied"), the relay
\* has logged exactly one entry, at error level, has stopped, and has received
\* nothing else, whatever is still queued behind it.
C9_ErrorFirstStops ==
  (consumed # <<>> /\ consumed[1] = Ev("Error", "permission denied")) =>
    /\ Len(consumed) = 1
    /\ relayPc = "exited"
    /\ Len(log) = 1
    /\ log[1].level = "error"

C9_Witness ==
  /\ consumed = <<Ev("Error", "permission denied")>>
  /\ rx # <<>>
  /\ relayPc = "exited"

\* C10: when resolving or spawning the sidecar fails, setup aborts: spawn was
\* attempted at most once, no relay task exists, nothing was managed or stored,
\* no window event was handled, nothing was killed or logged.
C10_SetupFailureAborts ==
  setupError # "none" =>
    /\ setupPc = "aborted"
    /\ spawns <= 1
    /\ proc = "none"
    /\ relayPc = "none"
    /\ ~managed
    /\ slot = {}
    /\ killCalls = 0
    /\ log = <<>>
    /\ \A w \in Windows : win[w] = "open"

C10_Witness ==
  /\ setupError = "spawn"
  /\ setupPc = "aborted"
  /\ spawns = 1

IsFault(e) == e.kind \in {"Terminated", "Error"}
FaultSeen == \E i \in DOMAIN consumed : IsFault(consumed[i])

\* C11: a Terminated or Error event received by the relay is logged and nothing
\* else: that step adds one log entry (info for Terminated, error for Error) and
\* changes nothing of setup, the slot, the handlers or the process; afterwards
\* the application is still alive, an open window's Destroyed event can still be
\* handled, and spawn has been called exactly once.
C11_FaultOnlyLogged ==
  /\ [](/\ spawns <= 1
        /\ FaultSeen =>
             /\ Alive
             /\ spawns = 1
             /\ \A w \in Windows :
                  (win[w] = "open" /\ setupPc = "done" /\ MainThreadIdle) =>
                    ENABLED WindowDestroyed(w))
  /\ [][(relayPc = "recv" /\ consumed' # consumed /\ IsFault(Head(rx))) =>
          /\ Len(log') = Len(log) + 1
          /\ SubSeq(log', 1, Len(log)) = log
          /\ log'[Len(log')].level =
               (IF Head(rx).kind = "Error" THEN "error" ELSE "info")
          /\ UNCHANGED <<setupVars, proc, slot, handlerVars>>]_vars

C11_Witness ==
  /\ \E i \in DOMAIN consumed : consumed[i] = Ev("Error", "permission denied")
  /\ \E w \in Windows : win[w] = "destroyed" /\ outcome[w] = "took"
  /\ spawns = 1
  /\ Alive

\* The worker's lifecycle state, read off the process and the spawn result.
WorkerState ==
  CASE setupError = "spawn" -> "Errored"
    [] proc = "none" -> "NotSpawned"
    [] proc = "running" -> "Running"
    [] proc = "exited" -> "Terminated"
    [] OTHER -> "Killed"

TerminalStates == {"Terminated", "Killed", "Errored"}
IoErrorSeen == \E i \in DOMAIN consumed : consumed[i].kind = "Error"

C13_KilledLoggedOnlyOnSuccess ==
  [][\A w \in Windows :
       (win[w] = "log" /\ win'[w] # "log" /\ log' = Append(log, KilledEntry)) =>
         killRes[w] = "ok"]_vars

RelayStep == relayPc = "recv" /\ (consumed' # consumed \/ relayPc' = "exited")

\* C14: no step of the relay (receiving a line, receiving a terminal event, or
\* finding the stream ended) changes the slot, the Mutex, the process or any
\* handler's state; the slot is emptied only by a handler's take and the
\* process is killed only by a handler's kill().
C14_RelayLeavesSlotAndProcess ==
  /\ [][RelayStep =>
          UNCHANGED <<slot, managed, proc, lockHolder, poisoned, win, outcome,
                      held, killRes, killCalls>>]_vars
  /\ [][(slot # {} /\ slot' = {}) =>
          \E w \in Windows : win[w] = "lock" /\ win'[w] # "lock"]_vars
  /\ [][(killCalls' # killCalls \/ (proc' = "killed" /\ proc # "killed")) =>
          \E w \in Windows : win[w] = "kill" /\ win'[w] # "kill"]_vars

C14_Witness ==
  /\ relayPc = "exited"
  /\ \E i \in DOMAIN consumed : consumed[i].kind = "Error"
  /\ slot = {Child}
  /\ proc = "running"
  /\ killCalls = 0

\* C15: the relay exits only on receiving Terminated or Error or on finding
\* the stream ended; it receives nothing after a terminal event and nothing
\* once exited; a stream end adds no log entry; and once the stream is closed
\* (the worker exited, was killed and reaped, or the stream broke) the relay
\* eventually exits.
C15_RelayTerminates ==
  /\ [](relayPc = "exited" =>
          \/ consumed # <<>> /\ consumed[Len(consumed)].kind \in {"Terminated", "Error"}
          \/ rxClosed /\ rx = <<>>)
  /\ [](\A i \in 1..(Len(consumed) - 1) :
          consumed[i].kind \notin {"Terminated", "Error"})
  /\ [][relayPc = "exited" => UNCHANGED <<relayPc, consumed>>]_vars
  /\ [][(relayPc = "recv" /\ relayPc' = "exited" /\ consumed' = consumed) =>
          log' = log]_vars
  /\ (relayPc = "recv" /\ rxClosed) ~> (relayPc = "exited")

C15_Witness ==
  /\ relayPc = "exited"
  /\ rxClosed
  /\ Len(consumed) = 1
  /\ consumed[1].kind = "Stdout"
  /\ Len(log) = 1

LoggedKinds == {"Stdout", "Stderr", "Terminated", "Error"}
IsLogged(e) == e.kind \in LoggedKinds
ExpectedLevel(kind) ==
  CASE kind = "Stdout" -> "info"
    [] kind = "Stderr" -> "warn"
    [] kind = "Terminated" -> "info"
    [] OTHER -> "error"
IsTerminalEntry(entry) ==
  entry.msg[1] \in {"[sidecar] terminated with ", "[sidecar] error: "}

\* C16: the log is the image, in order, of the events the relay received:
\* one entry per Stdout, Stderr, Terminated or Error event, at that event's
\* level and with that event's text, none for any other event; a terminated or
\* error entry occurs at most once and only as the last entry.
C16_LogIsOrderedImage ==
  LET ev == SelectSeq(consumed, IsLogged)
  IN  /\ Len(log) = Len(ev)
      /\ \A i \in DOMAIN log :
           /\ i <= Len(ev)
           /\ log[i].level = ExpectedLevel(ev[i].kind)
           /\ ev[i].kind \in {"Stdout", "Stderr"} =>
                /\ log[i].msg[1] = SidecarPrefix
                /\ IsTrimOf(Tail(log[i].msg), Lossy(ev[i].data))
           /\ ev[i].kind = "Terminated" =>
                log[i].msg = <<"[sidecar] terminated with ", ev[i].data>>
           /\ ev[i].kind = "Error" =>
                log[i].msg = <<"[sidecar] error: ", ev[i].data>>
           /\ IsTerminalEntry(log[i]) => i = Len(log)

C16_Witness ==
  /\ Len(consumed) = 2
  /\ consumed[1] = Ev("Stderr", <<" ">>)
  /\ consumed[2].kind = "Terminated"
  /\ Len(log) = 2
  /\ relayPc = "exited"

\* C17: an event of any other kind is received without a log entry and without
\* ending the loop: the relay goes on to the next event.
C17_OtherEventIgnored ==
  [][(relayPc = "recv" /\ consumed' # consumed /\ Head(rx).kind = "Other") =>
       /\ log' = log
       /\ relayPc' = "recv"
       /\ rx' = Tail(rx)]_vars

C17_Witness ==
  /\ Len(consumed) = 2
  /\ consumed[1].kind = "Other"
  /\ consumed[2] = Ev("Stdout", Ready)
  /\ log = <<Entry("info", <<SidecarPrefix>> \o Ready)>>

====
